---------------------------- MODULE Spec2Model ----------------------------
(***************************************************************************)
(* Spider cybersecurity tutor: the input safety filter                     *)
(* (modules/safety.py), the conversation buffer and LLM engine             *)
(* (modules/ai_engine.py) and the front ends that call them (main.py,      *)
(* web_app.py, app.py, app_standalone.py, shared_app.py).                  *)
(*                                                                         *)
(* Texts are TLA+ strings handled character by character (Len, SubSeq,     *)
(* \o), so that lower-casing and regular-expression search are computed    *)
(* the way Python computes them.                                           *)
(***************************************************************************)
EXTENDS Integers, Sequences, FiniteSets, TLC

(***************************************************************************)
(* Bounds of the model.                                                    *)
(***************************************************************************)
\* longest generated input, in words of Vocab
MaxWords == 3
\* most check_input calls in a run of repeated calls
MaxCalls == 3
\* largest max_history a Conversation is built with
MaxHistory == 3
\* most add_message calls on one Conversation
MaxAppends == 5
\* most turns handled by one front end
MaxTurns == 3
\* most browser sessions of one web or Gradio server
MaxSessions == 2
\* most turns handled by a server with several sessions
MaxSessionTurns == 2
\* most inputs submitted to a loop that handles them step by step
MaxSubmits == 3

\* the AIEngine.chat calls made on one engine
MaxChats == 10

(***************************************************************************)
(* Characters and str.lower().                                             *)
(***************************************************************************)
CharAt(s, i) == SubSeq(s, i, i)

UpperToLower ==
  [c \in {"A", "B", "C", "D", "E", "F", "G", "H", "I", "J", "K", "L", "M",
          "N", "O", "P", "Q", "R", "S", "T", "U", "V", "W", "X", "Y", "Z"} |->
     CASE c = "A" -> "a" [] c = "B" -> "b" [] c = "C" -> "c" [] c = "D" -> "d"
       [] c = "E" -> "e" [] c = "F" -> "f" [] c = "G" -> "g" [] c = "H" -> "h"
       [] c = "I" -> "i" [] c = "J" -> "j" [] c = "K" -> "k" [] c = "L" -> "l"
       [] c = "M" -> "m" [] c = "N" -> "n" [] c = "O" -> "o" [] c = "P" -> "p"
       [] c = "Q" -> "q" [] c = "R" -> "r" [] c = "S" -> "s" [] c = "T" -> "t"
       [] c = "U" -> "u" [] c = "V" -> "v" [] c = "W" -> "w" [] c = "X" -> "x"
       [] c = "Y" -> "y" [] c = "Z" -> "z"]

LowerChar(c) == IF c \in DOMAIN UpperToLower THEN UpperToLower[c] ELSE c

\* str.lower(): every cased character replaced by its lower-case form
RECURSIVE Lower(_)
Lower(s) == IF s = "" THEN "" ELSE LowerChar(Head(s)) \o Lower(Tail(s))

\* the characters \w matches (ASCII part)
WordChars ==
  {"a", "b", "c", "d", "e", "f", "g", "h", "i", "j", "k", "l", "m",
   "n", "o", "p", "q", "r", "s", "t", "u", "v", "w", "x", "y", "z",
   "0", "1", "2", "3", "4", "5", "6", "7", "8", "9", "_"}
   \cup DOMAIN UpperToLower

\* the characters \s matches
SpaceChars == {" ", "\t", "\n", "\r", "\f"}

(***************************************************************************)
(* Regular expressions (Python's re): syntax trees and search.             *)
(***************************************************************************)
Lit(s) == [t |-> "lit", s |-> s]
Alt(a) == [t |-> "alt", a |-> a]
Cat(a) == [t |-> "cat", a |-> a]
\* r{lo,hi}; hi = -1 stands for no upper limit (r*, r+)
Rep(r, lo, hi) == [t |-> "rep", r |-> r, lo |-> lo, hi |-> hi]
Dot == [t |-> "dot"]
WS == [t |-> "ws"]
WB == [t |-> "wb"]

IsWordAt(s, i) == i >= 1 /\ i <= Len(s) /\ CharAt(s, i) \in WordChars

\* \b just before position i (1 .. Len(s)+1)
BoundaryAt(s, i) == IsWordAt(s, i - 1) # IsWordAt(s, i)

\* the literal lit occurs in s from position i on; ic is re.IGNORECASE
LitAt(s, i, lit, ic) ==
  /\ i + Len(lit) - 1 <= Len(s)
  /\ LET sub == SubSeq(s, i, i + Len(lit) - 1) IN
       IF ic THEN /\ LowerChar(Head(sub)) = LowerChar(Head(lit))
                  /\ Lower(sub) = Lower(lit)
             ELSE sub = lit

\* Ends(re, s, i, ic): the positions j such that re matches s[i .. j-1]
RECURSIVE Ends(_, _, _, _), EndsCat(_, _, _, _, _), EndsRep(_, _, _, _, _)
Ends(re, s, i, ic) ==
  CASE re.t = "lit" -> IF LitAt(s, i, re.s, ic) THEN {i + Len(re.s)} ELSE {}
    [] re.t = "dot" -> IF i <= Len(s) /\ CharAt(s, i) # "\n" THEN {i + 1} ELSE {}
    [] re.t = "ws"  -> IF i <= Len(s) /\ CharAt(s, i) \in SpaceChars THEN {i + 1} ELSE {}
    [] re.t = "wb"  -> IF BoundaryAt(s, i) THEN {i} ELSE {}
    [] re.t = "alt" -> UNION {Ends(re.a[k], s, i, ic) : k \in DOMAIN re.a}
    [] re.t = "cat" -> EndsCat(re.a, 1, s, {i}, ic)
    [] re.t = "rep" -> EndsRep(re, 0, s, {i}, ic)

\* the parts a[k], a[k+1], ... in sequence, started from any position of from
EndsCat(a, k, s, from, ic) ==
  IF k > Len(a) \/ from = {} THEN from
  ELSE EndsCat(a, k + 1, s, UNION {Ends(a[k], s, j, ic) : j \in from}, ic)

\* from: the positions reached after n repetitions of re.r
EndsRep(re, n, s, from, ic) ==
  LET here == IF n >= re.lo THEN from ELSE {}
      more == UNION {Ends(re.r, s, j, ic) : j \in from}
  IN  IF from = {} \/ n = re.hi THEN here
      ELSE here \cup EndsRep(re, n + 1, s, more, ic)

\* compiled.search(s): the pattern matches somewhere in s
Search(re, s, ic) == \E i \in 1..(Len(s) + 1) : Ends(re, s, i, ic) # {}


(***************************************************************************)
(* safety.py: the rule tables.                                             *)
(***************************************************************************)
Words(a) == Alt([k \in DOMAIN a |-> Lit(a[k])])

RE_exploit  == "\\b(write|create|give|provide|show).{0,20}(exploit|payload|shellcode)\\b"
RE_shell    == "\\b(reverse|bind).{0,10}shell\\b"
RE_intrude  == "\\bhow\\s+to\\s+(hack|exploit|breach|break\\s+into)\\b"
RE_malware  == "\\b(write|create|give|provide).{0,20}(malware|virus|trojan|ransomware|keylogger|rootkit)\\b"
RE_malcode  == "\\bmalware.{0,15}(code|source|script)\\b"
RE_cred     == "\\b(crack|brute\\s*force|steal).{0,15}(password|credential|hash)\\b"
RE_hash     == "\\bhash.{0,10}(crack|break)\\b"
RE_bypass   == "\\bbypass.{0,15}(authentication|firewall|antivirus|edr|security)\\b"
RE_evade    == "\\b(evade|avoid).{0,15}(detection|antivirus|edr)\\b"
RE_dos      == "\\b(ddos|dos)\\s*(attack|script|tool)\\b"
RE_mitm     == "\\bman.in.the.middle\\s*(attack|how)\\b"
RE_sqli     == "\\bsql\\s*injection.{0,15}(payload|bypass|code)\\b"
RE_xss      == "\\bxss.{0,15}(payload|bypass|code)\\b"
RE_noperm   == "\\b(without|no).{0,15}(permission|authorization|consent)\\b"
RE_access   == "\\baccess.{0,15}(someone|other|victim).{0,10}(account|system|network)\\b"

HARMFUL_PATTERNS ==
  << <<RE_exploit, "exploit/payload creation">>,
     <<RE_shell,   "reverse/bind shell creation">>,
     <<RE_intrude, "intrusion guidance">>,
     <<RE_malware, "malware creation">>,
     <<RE_malcode, "malware code request">>,
     <<RE_cred,    "credential attacks">>,
     <<RE_hash,    "password hash cracking">>,
     <<RE_bypass,  "security bypass">>,
     <<RE_evade,   "detection evasion">>,
     <<RE_dos,     "denial of service">>,
     <<RE_mitm,    "MITM attack">>,
     <<RE_sqli,    "SQL injection payload">>,
     <<RE_xss,     "XSS payload">>,
     <<RE_noperm,  "unauthorized access">>,
     <<RE_access,  "unauthorized system access">> >>

RE_testenv    == "\\btest\\s*environment\\b"
RE_howitworks == "\\bhow\\s*it\\s*works\\b"
RE_indicators == "\\bindicators?\\b"

DEFENSIVE_CONTEXT ==
  << "\\bdefend\\b", "\\bdefense\\b", "\\bdefensive\\b",
     "\\bprotect\\b", "\\bprotection\\b",
     "\\bdetect\\b", "\\bdetection\\b",
     "\\bprevent\\b", "\\bprevention\\b",
     "\\bmitigate\\b", "\\bmitigation\\b",
     "\\bharden\\b", "\\bhardening\\b",
     "\\bsecure\\b", "\\bsecuring\\b",
     "\\blab\\b", RE_testenv,
     "\\bauthorized\\b", "\\bpermission\\b",
     "\\bunderstand\\b", RE_howitworks,
     RE_indicators, "\\bioc\\b",
     "\\bforensic\\b", "\\banalysis\\b" >>

\* re.compile(p): the syntax tree of the pattern source p.  A source that is
\* not one of the named ones has the shape \bWORD\b.
Compile(p) ==
  CASE p = RE_exploit ->
         Cat(<<WB, Words(<<"write", "create", "give", "provide", "show">>),
               Rep(Dot, 0, 20), Words(<<"exploit", "payload", "shellcode">>), WB>>)
    [] p = RE_shell ->
         Cat(<<WB, Words(<<"reverse", "bind">>), Rep(Dot, 0, 10), Lit("shell"), WB>>)
    [] p = RE_intrude ->
         Cat(<<WB, Lit("how"), Rep(WS, 1, -1), Lit("to"), Rep(WS, 1, -1),
               Alt(<<Lit("hack"), Lit("exploit"), Lit("breach"),
                     Cat(<<Lit("break"), Rep(WS, 1, -1), Lit("into")>>)>>), WB>>)
    [] p = RE_malware ->
         Cat(<<WB, Words(<<"write", "create", "give", "provide">>), Rep(Dot, 0, 20),
               Words(<<"malware", "virus", "trojan", "ransomware", "keylogger", "rootkit">>),
               WB>>)
    [] p = RE_malcode ->
         Cat(<<WB, Lit("malware"), Rep(Dot, 0, 15), Words(<<"code", "source", "script">>), WB>>)
    [] p = RE_cred ->
         Cat(<<WB, Alt(<<Lit("crack"),
                         Cat(<<Lit("brute"), Rep(WS, 0, -1), Lit("force")>>),
                         Lit("steal")>>),
               Rep(Dot, 0, 15), Words(<<"password", "credential", "hash">>), WB>>)
    [] p = RE_hash ->
         Cat(<<WB, Lit("hash"), Rep(Dot, 0, 10), Words(<<"crack", "break">>), WB>>)
    [] p = RE_bypass ->
         Cat(<<WB, Lit("bypass"), Rep(Dot, 0, 15),
               Words(<<"authentication", "firewall", "antivirus", "edr", "security">>), WB>>)
    [] p = RE_evade ->
         Cat(<<WB, Words(<<"evade", "avoid">>), Rep(Dot, 0, 15),
               Words(<<"detection", "antivirus", "edr">>), WB>>)
    [] p = RE_dos ->
         Cat(<<WB, Words(<<"ddos", "dos">>), Rep(WS, 0, -1),
               Words(<<"attack", "script", "tool">>), WB>>)
    [] p = RE_mitm ->
         Cat(<<WB, Lit("man"), Dot, Lit("in"), Dot, Lit("the"), Dot, Lit("middle"),
               Rep(WS, 0, -1), Words(<<"attack", "how">>), WB>>)
    [] p = RE_sqli ->
         Cat(<<WB, Lit("sql"), Rep(WS, 0, -1), Lit("injection"), Rep(Dot, 0, 15),
               Words(<<"payload", "bypass", "code">>), WB>>)
    [] p = RE_xss ->
         Cat(<<WB, Lit("xss"), Rep(Dot, 0, 15), Words(<<"payload", "bypass", "code">>), WB>>)
    [] p = RE_noperm ->
         Cat(<<WB, Words(<<"without", "no">>), Rep(Dot, 0, 15),
               Words(<<"permission", "authorization", "consent">>), WB>>)
    [] p = RE_access ->
         Cat(<<WB, Lit("access"), Rep(Dot, 0, 15), Words(<<"someone", "other", "victim">>),
               Rep(Dot, 0, 10), Words(<<"account", "system", "network">>), WB>>)
    [] p = RE_testenv ->
         Cat(<<WB, Lit("test"), Rep(WS, 0, -1), Lit("environment"), WB>>)
    [] p = RE_howitworks ->
         Cat(<<WB, Lit("how"), Rep(WS, 0, -1), Lit("it"), Rep(WS, 0, -1), Lit("works"), WB>>)
    [] p = RE_indicators ->
         Cat(<<WB, Lit("indicator"), Rep(Lit("s"), 0, 1), WB>>)
    [] OTHER ->
         Cat(<<WB, Lit(SubSeq(p, 3, Len(p) - 2)), WB>>)

(***************************************************************************)
(* safety.py: SafetyFilter.                                                *)
(***************************************************************************)
SafetyCheck(is_safe, reason, suggestion) ==
  [is_safe |-> is_safe, reason |-> reason, suggestion |-> suggestion]

\* re.compile(p, re.IGNORECASE): the pattern object
Pattern(p) == [pattern |-> p, ignorecase |-> TRUE]

\* SafetyFilter.__init__: self.harmful_patterns
CompileHarmful == [k \in DOMAIN HARMFUL_PATTERNS |->
                     <<Pattern(HARMFUL_PATTERNS[k][1]), HARMFUL_PATTERNS[k][2]>>]

\* SafetyFilter.__init__: self.defensive_patterns
CompileDefensive == [k \in DOMAIN DEFENSIVE_CONTEXT |-> Pattern(DEFENSIVE_CONTEXT[k])]

\* pattern.search(s) is not None
Matches(pat, s) == Search(Compile(pat.pattern), s, pat.ignorecase)

\* key in topic
Contains(topic, key) ==
  \E i \in 1..(Len(topic) - Len(key) + 1) : SubSeq(topic, i, i + Len(key) - 1) = key

\* the dict of _get_safe_alternative, in insertion order
Alternatives ==
  << <<"exploit/payload creation",
       "I can explain how exploits work conceptually, discuss CVE details, or help you set up detection for exploit attempts.">>,
     <<"reverse/bind shell creation",
       "I can explain what reverse shells are, how to detect them in network traffic, and how to harden systems against them.">>,
     <<"intrusion guidance",
       "I can help you understand attack techniques for defensive purposes, set up authorized penetration testing, or improve your security posture.">>,
     <<"malware creation",
       "I can explain malware behavior, help you analyze samples safely, or set up detection rules for malware indicators.">>,
     <<"credential attacks",
       "I can help you implement strong authentication, detect credential attacks, and set up password policies and monitoring.">>,
     <<"security bypass",
       "I can help you test your security controls legitimately, improve defense-in-depth, and detect bypass attempts.">>,
     <<"detection evasion",
       "I can help improve your detection capabilities, understand evasion techniques for better defense, and tune your security tools.">>,
     <<"denial of service",
       "I can help you protect against DoS attacks, set up rate limiting, and implement DDoS mitigation strategies.">>,
     <<"SQL injection payload",
       "I can help you understand SQL injection for defensive purposes, implement input validation, and set up WAF rules.">>,
     <<"XSS payload",
       "I can help you understand XSS for defensive purposes, implement CSP headers, and sanitize user input.">>,
     <<"unauthorized access",
       "I can only help with authorized security testing. I can assist with setting up proper authorization for pentests.">> >>

FallbackSuggestion ==
  "I can help you understand this topic from a defensive perspective, set up detection, or improve your security posture."

\* the loop of _get_safe_alternative from entry k on
RECURSIVE AlternativeFrom(_, _)
AlternativeFrom(topic, k) ==
  IF k > Len(Alternatives) THEN FallbackSuggestion
  ELSE IF Contains(topic, Alternatives[k][1]) THEN Alternatives[k][2]
  ELSE AlternativeFrom(topic, k + 1)

\* mutant: no generic fallback, a topic without an entry gets no suggestion
get_safe_alternative_no_fallback(topic) ==
  IF \E k \in DOMAIN Alternatives : Contains(topic, Alternatives[k][1])
  THEN AlternativeFrom(topic, 1)
  ELSE ""

\* mutant: the generic suggestion whatever the topic
get_safe_alternative_generic(topic) == FallbackSuggestion

\* SafetyFilter._get_safe_alternative
get_safe_alternative(topic) == AlternativeFrom(topic, 1)

\* mutant: all() where the code has any()
has_defensive_context_all(dps, text_lower) ==
  \A k \in DOMAIN dps : Matches(dps[k], text_lower)

\* mutant: "detection" and "permission" are no Context-Signals
has_defensive_context_no_nouns(dps, text_lower) ==
  \E k \in DOMAIN dps :
    /\ dps[k].pattern \notin {"\\bdetection\\b", "\\bpermission\\b"}
    /\ Matches(dps[k], text_lower)

\* any(dp.search(text_lower) for dp in self.defensive_patterns)
has_defensive_context(dps, text_lower) ==
  \E k \in DOMAIN dps : Matches(dps[k], text_lower)

\* mutant: a matching rule blocks whatever the context
RECURSIVE ScanRulesNoContext(_, _, _, _)
ScanRulesNoContext(hps, dps, text_lower, k) ==
  IF k > Len(hps) THEN SafetyCheck(TRUE, "Input appears safe", "")
  ELSE IF Matches(hps[k][1], text_lower)
       THEN SafetyCheck(FALSE, "Request appears to involve " \o hps[k][2],
                        get_safe_alternative(hps[k][2]))
       ELSE ScanRulesNoContext(hps, dps, text_lower, k + 1)

\* mutant: no early return, the last blocking rule wins
ScanRulesLastWins(hps, dps, text_lower, k) ==
  LET blocking == {j \in k..Len(hps) :
                     /\ Matches(hps[j][1], text_lower)
                     /\ ~has_defensive_context(dps, text_lower)}
      last == CHOOSE j \in blocking : \A i \in blocking : i <= j
  IN  IF blocking = {} THEN SafetyCheck(TRUE, "Input appears safe", "")
      ELSE SafetyCheck(FALSE, "Request appears to involve " \o hps[last][2],
                       get_safe_alternative(hps[last][2]))

\* mutant: the context mitigates the first matching rule only
RECURSIVE ScanRulesMitigateOnce(_, _, _, _)
ScanRulesMitigateOnce(hps, dps, text_lower, k) ==
  IF k > Len(hps) THEN SafetyCheck(TRUE, "Input appears safe", "")
  ELSE IF Matches(hps[k][1], text_lower)
       THEN IF ~has_defensive_context(dps, text_lower)
            THEN SafetyCheck(FALSE, "Request appears to involve " \o hps[k][2],
                             get_safe_alternative(hps[k][2]))
            ELSE ScanRulesMitigateOnce(hps, <<>>, text_lower, k + 1)
       ELSE ScanRulesMitigateOnce(hps, dps, text_lower, k + 1)

\* the for loop of check_input from rule k on, and the return after it
RECURSIVE ScanRules(_, _, _, _)
ScanRules(hps, dps, text_lower, k) ==
  IF k > Len(hps) THEN SafetyCheck(TRUE, "Input appears safe", "")
  ELSE IF /\ Matches(hps[k][1], text_lower)
          /\ ~has_defensive_context(dps, text_lower)
       THEN SafetyCheck(FALSE, "Request appears to involve " \o hps[k][2],
                        get_safe_alternative(hps[k][2]))
       ELSE ScanRules(hps, dps, text_lower, k + 1)

\* mutant: no lower-casing, and the patterns compiled without re.IGNORECASE
check_input_case_sensitive(hps, dps, txt) ==
  ScanRules([k \in DOMAIN hps |-> <<[hps[k][1] EXCEPT !.ignorecase = FALSE], hps[k][2]>>],
            [k \in DOMAIN dps |-> [dps[k] EXCEPT !.ignorecase = FALSE]],
            txt, 1)

\* SafetyFilter.check_input: the SafetyCheck returned
check_input(hps, dps, txt) == ScanRules(hps, dps, Lower(txt), 1)

\* SafetyFilter.get_safety_response (the shield emoji of the heading left out)
get_safety_response(check) ==
  "**Safety Notice**\n\nI can't help with requests that could enable "
    \o Lower(check.reason)
    \o ".\n\n**What I can help with instead:**\n"
    \o check.suggestion
    \o "\n\n**Safe alternatives:**\n- Explain the technique at a conceptual level\n- Set up detection and monitoring\n- Implement defensive controls\n- Practice in authorized lab environments\n- Study for security certifications\n\nWould you like me to help with any of these instead?"

\* mutant: check_input removes the rule that blocked from the table
filter_after_check_pop(hps, dps, txt) ==
  LET low == Lower(txt)
      blocking == {k \in DOMAIN hps : Matches(hps[k][1], low) /\ ~has_defensive_context(dps, low)}
      first == CHOOSE k \in blocking : \A j \in blocking : k <= j
  IN  IF blocking = {} THEN <<hps, dps>>
      ELSE <<SubSeq(hps, 1, first - 1) \o SubSeq(hps, first + 1, Len(hps)), dps>>

\* what check_input leaves in self.harmful_patterns and self.defensive_patterns:
\* it assigns to neither
filter_after_check(hps, dps, txt) == <<hps, dps>>

\* mutant: an allowed text is answered with the reason of the SafetyCheck
safety_tuple_reason(check) ==
  IF check.is_safe THEN <<TRUE, check.reason>> ELSE <<FALSE, get_safety_response(check)>>

\* check_safety: the (is_safe, message) tuple returned for the SafetyCheck
safety_tuple(check) ==
  IF check.is_safe THEN <<TRUE, "">> ELSE <<FALSE, get_safety_response(check)>>

\* check_safety(text) on the global safety_filter
check_safety(hps, dps, txt) == safety_tuple(check_input(hps, dps, txt))

(***************************************************************************)
(* ai_engine.py: Message and Conversation.                                 *)
(***************************************************************************)
Message(role, content) == [role |-> role, content |-> content]

Roles == {"system", "user", "assistant"}

\* Conversation.max_history: int = 20
DefaultMaxHistory == 20

\* [m for m in msgs if m.role == 'system']
SystemMsgs(msgs) == SelectSeq(msgs, LAMBDA m : m.role = "system")

\* [m for m in msgs if m.role != 'system']
OtherMsgs(msgs) == SelectSeq(msgs, LAMBDA m : m.role # "system")

\* Python's seq[start:]: a negative start counts from the end, and is
\* clamped to the list
PySliceFrom(seq, start) ==
  LET n == Len(seq)
      st == IF start < 0 THEN (IF start + n < 0 THEN 0 ELSE start + n)
            ELSE (IF start > n THEN n ELSE start)
  IN  SubSeq(seq, st + 1, n)

\* mutant: the trim keeps the last max_hist messages in append order
add_message_tail(msgs, max_hist, role, content) ==
  LET appended == Append(msgs, Message(role, content)) IN
    IF Len(appended) > max_hist
    THEN SubSeq(appended, Len(appended) - max_hist + 1, Len(appended))
    ELSE appended

\* Conversation.add_message: self.messages after the call
add_message(msgs, max_hist, role, content) ==
  LET appended == Append(msgs, Message(role, content)) IN
    IF Len(appended) > max_hist
    THEN LET system_msgs == SystemMsgs(appended)
             other_msgs == OtherMsgs(appended)
         IN  system_msgs \o PySliceFrom(other_msgs, -(max_hist - Len(system_msgs)))
    ELSE appended

\* mutant: clear drops the system messages too
clear_all(msgs, keep_system) == <<>>

\* Conversation.clear: self.messages after the call
clear(msgs, keep_system) == IF keep_system THEN SystemMsgs(msgs) ELSE <<>>

(***************************************************************************)
(* ai_engine.py: AIEngine.                                                 *)
(***************************************************************************)
\* config.SYSTEM_PROMPT (its text left out)
SYSTEM_PROMPT == "<SYSTEM_PROMPT>"

\* the provider's answer, and the strings AIEngine.chat builds itself
LLMAnswer == "<LLM answer>"
NotInitialized == "AI engine not initialized. Please check your API key and provider settings."
ErrorGenerating == "Error generating response: <provider error>"

\* no AIEngine built yet: ai_engine = None
NoEngine == [built |-> FALSE, client |-> FALSE, messages |-> <<>>]

\* AIEngine.__init__: client_ok says whether _init_client set self.client
AIEngineNew(client_ok, system_prompt) ==
  [built |-> TRUE,
   client |-> client_ok,
   messages |-> IF system_prompt # ""
                THEN add_message(<<>>, DefaultMaxHistory, "system", system_prompt)
                ELSE <<>>]

\* mutant: a failed provider call takes the user message back
ai_chat_rollback(eng, user_message, outcome) ==
  IF ~eng.client THEN [ai |-> eng, ret |-> NotInitialized, called |-> FALSE]
  ELSE LET with_user == add_message(eng.messages, DefaultMaxHistory, "user", user_message) IN
         IF outcome = "ok"
         THEN [ai |-> [eng EXCEPT !.messages =
                         add_message(with_user, DefaultMaxHistory, "assistant", LLMAnswer)],
               ret |-> LLMAnswer, called |-> TRUE]
         ELSE [ai |-> eng, ret |-> ErrorGenerating, called |-> TRUE]

\* mutant: chat goes on without a client and fails in the provider call
ai_chat_no_guard(eng, user_message, outcome) ==
  LET with_user == add_message(eng.messages, DefaultMaxHistory, "user", user_message) IN
    IF eng.client /\ outcome = "ok"
    THEN [ai |-> [eng EXCEPT !.messages =
                    add_message(with_user, DefaultMaxHistory, "assistant", LLMAnswer)],
          ret |-> LLMAnswer, called |-> TRUE]
    ELSE [ai |-> [eng EXCEPT !.messages = with_user], ret |-> ErrorGenerating, called |-> TRUE]

\* AIEngine.chat(user_message): the engine after the call and the string
\* returned; outcome is what the provider call does ("ok" or "raise"),
\* called whether the provider call was made
ai_chat(eng, user_message, outcome) ==
  IF ~eng.client THEN [ai |-> eng, ret |-> NotInitialized, called |-> FALSE]
  ELSE LET with_user == add_message(eng.messages, DefaultMaxHistory, "user", user_message) IN
         IF outcome = "ok"
         THEN [ai |-> [eng EXCEPT !.messages =
                         add_message(with_user, DefaultMaxHistory, "assistant", LLMAnswer)],
               ret |-> LLMAnswer, called |-> TRUE]
         ELSE [ai |-> [eng EXCEPT !.messages = with_user], ret |-> ErrorGenerating, called |-> TRUE]

\* get_ai_engine(): the module's engine, built on first use
get_ai_engine(eng, client_ok) ==
  IF eng.built THEN eng ELSE AIEngineNew(client_ok, SYSTEM_PROMPT)

\* Conversation.get_messages_for_api: one dict per message
get_messages_for_api(msgs) ==
  [i \in DOMAIN msgs |-> [role |-> msgs[i].role, content |-> msgs[i].content]]

\* the libraries whose import succeeded (OPENAI_AVAILABLE, ANTHROPIC_AVAILABLE,
\* OLLAMA_AVAILABLE)
AllLibs == {"openai", "anthropic", "ollama"}

\* AIEngine._init_client: whether self.client is set afterwards.  provider
\* is the constructor's argument, libs the libraries installed, api_key the
\* key given (<<>> for None), ctor_fails whether the client's constructor
\* raises
init_client(provider, libs, api_key, ctor_fails) ==
  LET self_provider == Lower(provider)
      no_key == api_key = <<>> \/ api_key = <<"">>
  IN  IF self_provider = "openai" /\ "openai" \in libs
      THEN ~no_key /\ ~ctor_fails
      ELSE IF self_provider = "anthropic" /\ "anthropic" \in libs
      THEN ~no_key /\ ~ctor_fails
      ELSE IF self_provider = "ollama" /\ "ollama" \in libs
      THEN TRUE
      ELSE FALSE

\* mutant: the request is built before the user message is stored
provider_request_stale(provider, system_prompt, msgs, user_message) ==
  IF Lower(provider) = "anthropic"
  THEN [system |-> <<system_prompt>>,
        messages |-> SelectSeq(get_messages_for_api(msgs), LAMBDA d : d.role # "system")]
  ELSE [system |-> <<>>, messages |-> get_messages_for_api(msgs)]

\* _chat_openai / _chat_anthropic / _chat_ollama: what the provider is
\* called with in AIEngine.chat(user_message) on the buffer msgs
provider_request(provider, system_prompt, msgs, user_message) ==
  LET with_user == add_message(msgs, DefaultMaxHistory, "user", user_message) IN
    IF Lower(provider) = "anthropic"
    THEN [system |-> <<system_prompt>>,
          messages |-> SelectSeq(get_messages_for_api(with_user), LAMBDA d : d.role # "system")]
    ELSE [system |-> <<>>, messages |-> get_messages_for_api(with_user)]

\* mutant: reset drops the system prompt too
reset_conversation_all(eng) == [eng EXCEPT !.messages = clear(eng.messages, FALSE)]

\* AIEngine.reset_conversation
reset_conversation(eng) == [eng EXCEPT !.messages = clear(eng.messages, TRUE)]

(***************************************************************************)
(* The front ends.  A handler returns the engine after the turn and the    *)
(* turn's events in order: check_safety calls, AIEngine.chat calls and     *)
(* what the user is shown.                                                 *)
(***************************************************************************)
\* a check_safety(txt) call and the tuple it returned
EvCheck(txt, safety) == <<"check_safety", txt, safety[1], safety[2]>>
EvChat(txt) == <<"ai.chat", txt>>
EvShow(str) == <<"show", str>>

\* str.strip()
RECURSIVE LStrip(_), RStrip(_)
LStrip(s) == IF s # "" /\ Head(s) \in SpaceChars THEN LStrip(Tail(s)) ELSE s
RStrip(s) == IF s # "" /\ CharAt(s, Len(s)) \in SpaceChars
             THEN RStrip(SubSeq(s, 1, Len(s) - 1)) ELSE s
Strip(s) == RStrip(LStrip(s))

\* str.startswith
StartsWith(s, prefix) == Len(prefix) <= Len(s) /\ SubSeq(s, 1, Len(prefix)) = prefix

\* dict.get(key, default)
Get(dict, key, default) == IF key \in DOMAIN dict THEN dict[key] ELSE default

\* mutant: the endpoint goes on to the engine after a BLOCK
web_chat_no_return(hps, dps, eng, client_ok, message, outcome) ==
  LET safety == check_safety(hps, dps, message)
      c == ai_chat(get_ai_engine(eng, client_ok), message, outcome)
  IN  [ai |-> c.ai,
       events |-> <<EvCheck(message, safety), EvChat(message)>>,
       status |-> 200,
       body |-> [response |-> c.ret]]

\* mutant: the endpoint classifies the message twice
web_chat_twice(hps, dps, eng, client_ok, message, outcome) ==
  LET safety == check_safety(hps, dps, message) IN
    IF ~safety[1]
    THEN [ai |-> eng,
          events |-> <<EvCheck(message, safety), EvCheck(message, safety)>>,
          status |-> 400,
          body |-> [error |-> safety[2]]]
    ELSE LET c == ai_chat(get_ai_engine(eng, client_ok), message, outcome) IN
           [ai |-> c.ai,
            events |-> <<EvCheck(message, safety), EvCheck(message, safety), EvChat(message)>>,
            status |-> 200,
            body |-> [response |-> c.ret]]

\* web_app.py chat: POST /api/chat, the JSON response
web_chat(hps, dps, eng, client_ok, message, outcome) ==
  LET safety == check_safety(hps, dps, message) IN
    IF ~safety[1]
    THEN [ai |-> eng,
          events |-> <<EvCheck(message, safety)>>,
          status |-> 400,
          body |-> [error |-> safety[2]]]
    ELSE LET c == ai_chat(get_ai_engine(eng, client_ok), message, outcome) IN
           [ai |-> c.ai,
            events |-> <<EvCheck(message, safety), EvChat(message)>>,
            status |-> 200,
            body |-> [response |-> c.ret]]

\* what the caller of /api/chat is given
web_turn(hps, dps, eng, client_ok, message, outcome) ==
  LET r == web_chat(hps, dps, eng, client_ok, message, outcome) IN
    [ai |-> r.ai,
     events |-> r.events \o <<EvShow(IF r.status = 200 THEN r.body.response ELSE r.body.error)>>]

\* shared_app.py chat_interface: the proxy client of /api/chat; reachable
\* says whether requests.post gets through
shared_turn(hps, dps, eng, client_ok, message, reachable, outcome) ==
  IF Strip(message) = "" THEN [ai |-> eng, events |-> <<>>]
  ELSE IF ~reachable
  THEN [ai |-> eng, events |-> <<EvShow("Error: <connection error>")>>]
  ELSE LET r == web_chat(hps, dps, eng, client_ok, message, outcome) IN
         IF r.status = 200
         THEN [ai |-> r.ai,
               events |-> r.events \o <<EvShow(Get(r.body, "response", "No response"))>>]
         ELSE [ai |-> r.ai,
               events |-> r.events \o <<EvShow("Error: " \o Get(r.body, "detail", "Error"))>>]

\* mutant: the engine is given the lower-cased text
gradio_turn_lowered(hps, dps, eng, client_ok, message, outcome) ==
  LET safety == check_safety(hps, dps, message) IN
    IF ~safety[1]
    THEN [ai |-> eng, events |-> <<EvCheck(message, safety), EvShow(safety[2])>>]
    ELSE LET c == ai_chat(get_ai_engine(eng, client_ok), Lower(message), outcome) IN
           [ai |-> c.ai,
            events |-> <<EvCheck(message, safety), EvChat(Lower(message)), EvShow(c.ret)>>]

\* app.py chat_with_spider: the first value returned goes to the text box
gradio_turn(hps, dps, eng, client_ok, message, outcome) ==
  LET safety == check_safety(hps, dps, message) IN
    IF ~safety[1]
    THEN [ai |-> eng, events |-> <<EvCheck(message, safety), EvShow(safety[2])>>]
    ELSE LET c == ai_chat(get_ai_engine(eng, client_ok), message, outcome) IN
           [ai |-> c.ai,
            events |-> <<EvCheck(message, safety), EvChat(message), EvShow(c.ret)>>]

\* app_standalone.py chat_interface; modules_ok is MODULES_AVAILABLE
standalone_turn(hps, dps, eng, client_ok, modules_ok, message, outcome) ==
  IF Strip(message) = "" THEN [ai |-> eng, events |-> <<>>]
  ELSE IF ~modules_ok
  THEN [ai |-> eng,
        events |-> <<EvShow("Demo Response to: " \o message
                     \o "\n\nFor full functionality, please ensure all modules are installed.")>>]
  ELSE LET safety == check_safety(hps, dps, message) IN
         IF ~safety[1]
         THEN [ai |-> eng, events |-> <<EvCheck(message, safety)>>]
         ELSE LET c == ai_chat(get_ai_engine(eng, client_ok), message, outcome) IN
                [ai |-> c.ai,
                 events |-> <<EvCheck(message, safety), EvChat(message), EvShow(c.ret)>>]

\* mutant: the refused text is kept in the conversation
spider_chat_store_blocked(hps, dps, eng, user_input, outcome) ==
  LET safety == check_safety(hps, dps, user_input) IN
    IF ~safety[1]
    THEN [ai |-> [eng EXCEPT !.messages =
                    add_message(eng.messages, DefaultMaxHistory, "user", user_input)],
          events |-> <<EvCheck(user_input, safety), EvShow(safety[2])>>]
    ELSE LET c == ai_chat(eng, user_input, outcome) IN
           [ai |-> c.ai,
            events |-> <<EvCheck(user_input, safety), EvShow("Thinking..."),
                         EvChat(user_input), EvShow(c.ret)>>]

\* main.py Spider.chat
spider_chat(hps, dps, eng, user_input, outcome) ==
  LET safety == check_safety(hps, dps, user_input) IN
    IF ~safety[1]
    THEN [ai |-> eng, events |-> <<EvCheck(user_input, safety), EvShow(safety[2])>>]
    ELSE LET c == ai_chat(eng, user_input, outcome) IN
           [ai |-> c.ai,
            events |-> <<EvCheck(user_input, safety), EvShow("Thinking..."),
                         EvChat(user_input), EvShow(c.ret)>>]

\* the commands of process_command that print from the knowledge base
\* ("show answers" is one only after "quiz" has stored a quiz)
IsStaticCommand(cmd) ==
  \/ cmd \in {"quiz", "flashcard"}
  \/ StartsWith(cmd, "mitre ")
  \/ StartsWith(cmd, "template ")
  \/ StartsWith(cmd, "checklist")

\* mutant: the exit words are compared with the line as typed
process_command_exact(eng, user_input, voice_ok, heard) ==
  LET cmd == Strip(Lower(user_input)) IN
    IF cmd = "help"
    THEN [ai |-> eng, running |-> TRUE, processed |-> <<>>, events |-> <<EvShow("<help>")>>]
    ELSE IF cmd = "voice"
    THEN IF voice_ok /\ heard # <<>> /\ heard[1] # ""
         THEN [ai |-> eng, running |-> TRUE, processed |-> heard,
               events |-> <<EvShow("You said: " \o heard[1])>>]
         ELSE [ai |-> eng, running |-> TRUE, processed |-> <<>>, events |-> <<>>]
    ELSE IF IsStaticCommand(cmd)
    THEN [ai |-> eng, running |-> TRUE, processed |-> <<>>, events |-> <<EvShow("<knowledge base>")>>]
    ELSE IF cmd = "clear"
    THEN [ai |-> [eng EXCEPT !.messages = clear(eng.messages, TRUE)], running |-> TRUE,
          processed |-> <<>>, events |-> <<EvShow("Conversation reset")>>]
    ELSE IF user_input \in {"exit", "quit", "bye"}
    THEN [ai |-> eng, running |-> FALSE, processed |-> <<>>,
          events |-> <<EvShow("Goodbye! Stay secure!")>>]
    ELSE [ai |-> eng, running |-> TRUE, processed |-> <<user_input>>, events |-> <<>>]

\* main.py Spider.process_command: processed is the Optional[str] returned
\* (<<>> for None); voice_ok is self.voice and self.voice.is_available(),
\* heard what self.voice.listen returns
process_command(eng, user_input, voice_ok, heard) ==
  LET cmd == Strip(Lower(user_input)) IN
    IF cmd = "help"
    THEN [ai |-> eng, running |-> TRUE, processed |-> <<>>, events |-> <<EvShow("<help>")>>]
    ELSE IF cmd = "voice"
    THEN IF voice_ok /\ heard # <<>> /\ heard[1] # ""
         THEN [ai |-> eng, running |-> TRUE, processed |-> heard,
               events |-> <<EvShow("You said: " \o heard[1])>>]
         ELSE [ai |-> eng, running |-> TRUE, processed |-> <<>>, events |-> <<>>]
    ELSE IF IsStaticCommand(cmd)
    THEN [ai |-> eng, running |-> TRUE, processed |-> <<>>, events |-> <<EvShow("<knowledge base>")>>]
    ELSE IF cmd = "clear"
    THEN [ai |-> [eng EXCEPT !.messages = clear(eng.messages, TRUE)], running |-> TRUE,
          processed |-> <<>>, events |-> <<EvShow("Conversation reset")>>]
    ELSE IF cmd \in {"exit", "quit", "bye"}
    THEN [ai |-> eng, running |-> FALSE, processed |-> <<>>,
          events |-> <<EvShow("Goodbye! Stay secure!")>>]
    ELSE [ai |-> eng, running |-> TRUE, processed |-> <<user_input>>, events |-> <<>>]

\* mutant: a failed LLM call ends the loop
cli_turn_crash(hps, dps, eng, user_input, voice_ok, heard, outcome) ==
  IF Strip(user_input) = "" THEN [ai |-> eng, running |-> TRUE, events |-> <<>>]
  ELSE LET p == process_command(eng, user_input, voice_ok, heard) IN
         IF p.processed # <<>> /\ p.processed[1] # ""
         THEN LET c == spider_chat(hps, dps, p.ai, p.processed[1], outcome)
                  failed == \E k \in DOMAIN c.events :
                              c.events[k] \in {EvShow(ErrorGenerating), EvShow(NotInitialized)}
              IN  [ai |-> c.ai, running |-> p.running /\ ~failed,
                   events |-> p.events \o c.events]
         ELSE [ai |-> p.ai, running |-> p.running, events |-> p.events]

\* main.py Spider.run: one pass of the loop body on the line read
cli_turn(hps, dps, eng, user_input, voice_ok, heard, outcome) ==
  IF Strip(user_input) = "" THEN [ai |-> eng, running |-> TRUE, events |-> <<>>]
  ELSE LET p == process_command(eng, user_input, voice_ok, heard) IN
         IF p.processed # <<>> /\ p.processed[1] # ""
         THEN LET c == spider_chat(hps, dps, p.ai, p.processed[1], outcome) IN
                [ai |-> c.ai, running |-> p.running, events |-> p.events \o c.events]
         ELSE [ai |-> p.ai, running |-> p.running, events |-> p.events]

(***************************************************************************)
(* Inputs.                                                                 *)
(***************************************************************************)
Vocab == {"reverse", "shell", "detect", "Hash", "crack"}

RECURSIVE Join(_)
Join(ws) == IF Len(ws) = 0 THEN ""
            ELSE IF Len(ws) = 1 THEN ws[1]
            ELSE ws[1] \o " " \o Join(Tail(ws))

P3Text == "write me a reverse shell"
P4Text == "how do I detect a reverse shell in my lab environment"

SampleTexts ==
  {P3Text, P4Text, "write a reverse shell payload",
   "BYPASS AUTHENTICATION", "bypass authentication",
   "create malware code", "create malware code analysis",
   "evade detection", "access data without Permission", "What is a firewall?",
   "evade nondetection", "without repermission"}

\* the texts given to the classifier: every text of up to MaxWords words of
\* Vocab (the empty text among them) and the sample texts
Texts == {Join(ws) : ws \in UNION {[1..n -> Vocab] : n \in 0..MaxWords}} \cup SampleTexts

\* the texts of the repeated-call runs
ProbeTexts == {"reverse shell", "crack Hash crack", "detect reverse shell", "hello", ""}

(***************************************************************************)
(* State.                                                                  *)
(***************************************************************************)
VARIABLES
  harmful_patterns,    \* safety_filter.harmful_patterns
  defensive_patterns,  \* safety_filter.defensive_patterns
  text,                \* the text under classification
  rule_hits,           \* history: the rules of HARMFUL_PATTERNS whose pattern matches text
  ctx_hit,             \* history: some pattern of DEFENSIVE_CONTEXT matches text
  check,               \* the SafetyCheck of the last check_input call
  result,              \* the tuple returned by the last check_safety call
  spc,                 \* "ready" before the call, "done" after it
  log,                 \* the check_input calls made so far: <<text, SafetyCheck>>
  messages,            \* Conversation.messages
  max_history,         \* Conversation.max_history
  prev_messages,       \* history: messages before the last Conversation call
  last_op,             \* history: the last Conversation call, <<name, arguments>>
  nappends,            \* history: the add_message calls made
  app,                 \* the front end this run is: "cli", "gradio", "standalone", "web"
  ai,                  \* the front end's AIEngine (NoEngine while ai_engine is None)
  client_ok,           \* environment: AIEngine._init_client gets a client
  modules_available,   \* app_standalone.MODULES_AVAILABLE
  running,             \* Spider.running
  turn,                \* history: the last turn handled, its input and its events
  nturns,              \* history: the turns handled
  call_arg,            \* the argument of a direct check_safety call: [type, value]
  call_outcome,        \* how that call ended: [raised, exc, value]
  session,             \* the browser session of the last turn
  sent,                \* history: the texts each session has submitted
  waiting,             \* the inputs submitted and not yet accepted, in order
  active,              \* the turns accepted and not yet finished
  engine_cfg,          \* environment: what an AIEngine is constructed with
  engine,              \* an AIEngine used on its own
  engine_call,         \* history: the last call made on engine
  nchats,              \* history: the chat calls made on engine
  import_pc            \* how far the import of modules/safety.py has got

safetyVars == <<harmful_patterns, defensive_patterns, text, rule_hits, ctx_hit,
                check, result, spc, log>>

convVars == <<messages, max_history, prev_messages, last_op, nappends>>

frontVars == <<app, ai, client_ok, modules_available, running, turn, nturns>>

callVars == <<call_arg, call_outcome>>

sessionVars == <<session, sent>>

\* the variables only the later specifications change
loopVars == <<waiting, active>>

engineVars == <<engine_cfg, engine, engine_call, nchats>>

startVars == <<import_pc>>

extVars == <<callVars, sessionVars, loopVars, engineVars, startVars>>

vars == <<safetyVars, convVars, frontVars, extVars>>

\* the rules whose pattern matches txt, the way re.IGNORECASE matches
RuleHits(txt) ==
  {k \in DOMAIN HARMFUL_PATTERNS : Search(Compile(HARMFUL_PATTERNS[k][1]), txt, TRUE)}

\* some Context-Signal matches txt
CtxHit(txt) ==
  \E k \in DOMAIN DEFENSIVE_CONTEXT : Search(Compile(DEFENSIVE_CONTEXT[k]), txt, TRUE)

NoCheck == SafetyCheck(TRUE, "", "")

\* the module after import: safety_filter = SafetyFilter()
SafetyFilterInit ==
  /\ harmful_patterns = CompileHarmful
  /\ defensive_patterns = CompileDefensive
  /\ check = NoCheck
  /\ result = <<TRUE, "">>
  /\ spc = "ready"
  /\ log = <<>>

SafetyIdle ==
  /\ SafetyFilterInit
  /\ text = ""
  /\ rule_hits = {}
  /\ ctx_hit = FALSE

\* Conversation(): the dataclass defaults
ConvIdle ==
  /\ messages = <<>>
  /\ max_history = DefaultMaxHistory
  /\ prev_messages = <<>>
  /\ last_op = <<"init">>
  /\ nappends = 0

NoTurn == [frontend |-> "none", input |-> "", events |-> <<>>]

\* no front end started
FrontIdle ==
  /\ app = "none"
  /\ ai = NoEngine
  /\ client_ok = FALSE
  /\ modules_available = TRUE
  /\ running = FALSE
  /\ turn = NoTurn
  /\ nturns = 0

\* a Python value given as argument
PyStr(t) == [type |-> "str", value |-> t]
PyNone == [type |-> "NoneType", value |-> ""]

NoOutcome == [raised |-> FALSE, exc |-> "", value |-> <<>>]

\* no direct call made
CallIdle ==
  /\ call_arg = PyStr("")
  /\ call_outcome = NoOutcome

\* no browser session
SessionIdle ==
  /\ session = 0
  /\ sent = <<>>

\* nothing submitted, no turn in progress
LoopIdle ==
  /\ waiting = <<>>
  /\ active = {}

NoConfig == [provider |-> "", libs |-> {}, api_key |-> <<>>, ctor_fails |-> FALSE,
             system_prompt |-> ""]

NoCall == [op |-> "none", user_message |-> "", outcome |-> "", ret |-> "",
           requests |-> <<>>, before |-> <<>>]

\* no engine built on its own
EngineIdle ==
  /\ engine_cfg = NoConfig
  /\ engine = NoEngine
  /\ engine_call = NoCall
  /\ nchats = 0

\* modules/safety.py imported to its end
StartIdle == import_pc = "imported"

ExtIdle == CallIdle /\ SessionIdle /\ LoopIdle /\ EngineIdle /\ StartIdle

(***************************************************************************)
(* One classification: check_safety(text) for each text of Texts.          *)
(***************************************************************************)
InitSafety ==
  /\ SafetyFilterInit
  /\ ConvIdle
  /\ FrontIdle
  /\ ExtIdle
  /\ text \in Texts
  /\ rule_hits = RuleHits(text)
  /\ ctx_hit = CtxHit(text)

\* check_safety(text): check is its local SafetyCheck, result the tuple returned
CheckSafety ==
  /\ spc = "ready"
  /\ LET c == check_input(harmful_patterns, defensive_patterns, text)
         after == filter_after_check(harmful_patterns, defensive_patterns, text)
     IN  /\ check' = c
         /\ result' = safety_tuple(c)
         /\ harmful_patterns' = after[1]
         /\ defensive_patterns' = after[2]
  /\ spc' = "done"
  /\ UNCHANGED <<text, rule_hits, ctx_hit, log, convVars, frontVars, extVars>>

NextSafety == CheckSafety

SpecSafety == InitSafety /\ [][NextSafety]_vars

(***************************************************************************)
(* Repeated calls: check_input on the texts of ProbeTexts, in any order.   *)
(***************************************************************************)
InitPure == SafetyIdle /\ ConvIdle /\ FrontIdle /\ ExtIdle

\* safety_filter.check_input(t)
CheckInput(t) ==
  /\ Len(log) < MaxCalls
  /\ LET c == check_input(harmful_patterns, defensive_patterns, t)
         after == filter_after_check(harmful_patterns, defensive_patterns, t)
     IN  /\ check' = c
         /\ log' = Append(log, <<t, c>>)
         /\ harmful_patterns' = after[1]
         /\ defensive_patterns' = after[2]
  /\ UNCHANGED <<text, rule_hits, ctx_hit, result, spc, convVars, frontVars, extVars>>

NextPure == \E t \in ProbeTexts : CheckInput(t)

SpecPure == InitPure /\ [][NextPure]_vars

(***************************************************************************)
(* Claims about the classifier.                                            *)
(***************************************************************************)
Blocked == spc = "done" /\ ~check.is_safe

ReasonOf(k) == "Request appears to involve " \o HARMFUL_PATTERNS[k][2]

FirstHit == CHOOSE k \in rule_hits : \A j \in rule_hits : k <= j

\* C1: the classifier returns BLOCK exactly when some Rule pattern matches the
\* text and no Context-Signal matches it, and ALLOW in every other case;
\* check_safety's flag is check_input's.
C1_BlockIff ==
  spc = "done" =>
    /\ check.is_safe = ~(rule_hits # {} /\ ~ctx_hit)
    /\ result[1] = check.is_safe

C1_Witness == Blocked /\ rule_hits # {} /\ ~ctx_hit /\ ~result[1]

\* C5: when the text matches two or more Rules and no Context-Signal, the
\* topic reported is that of the matching rule earliest in HARMFUL_PATTERNS.
C5_FirstMatchWins ==
  (spc = "done" /\ Cardinality(rule_hits) >= 2 /\ ~ctx_hit) =>
    /\ ~check.is_safe
    /\ check.reason = ReasonOf(FirstHit)
    /\ \A k \in rule_hits \ {FirstHit} : check.reason # ReasonOf(k)

C5_Witness == Blocked /\ Cardinality(rule_hits) >= 2 /\ ~ctx_hit

\* C6 as claimed: there is an input whose earliest matching rule is mitigated
\* by a Context-Signal and which is nevertheless blocked with the topic of a
\* later rule.
C6_LaterRuleBlocks ==
  \E t \in Texts :
    LET c == check_input(harmful_patterns, defensive_patterns, t) IN
      /\ RuleHits(t) # {}
      /\ CtxHit(t)
      /\ ~c.is_safe
      /\ \E k \in RuleHits(t) : \E j \in RuleHits(t) : k < j /\ c.reason = ReasonOf(j)

\* C6 as amended: when a matching rule is mitigated by a Context-Signal the
\* scan goes on, but the Context-Signals are matched against the whole text,
\* so every later matching rule is mitigated too: the result is ALLOW, and a
\* BLOCK never occurs on a text that holds a Context-Signal.
C6_MitigationIsGlobal ==
  /\ (spc = "done" /\ Cardinality(rule_hits) >= 2 /\ ctx_hit) =>
        check = SafetyCheck(TRUE, "Input appears safe", "")
  /\ Blocked => ~ctx_hit

C6_Witness == spc = "done" /\ Cardinality(rule_hits) >= 2 /\ ctx_hit /\ check.is_safe

\* C7: a text in which a Rule pattern co-occurs with a Context-Signal is
\* ALLOWED; "how do I detect a reverse shell in my lab environment" is such
\* a text.
C7_ContextAllows ==
  /\ (spc = "done" /\ rule_hits # {} /\ ctx_hit) => result = <<TRUE, "">>
  /\ (spc = "done" /\ text = P4Text) =>
        /\ 2 \in rule_hits
        /\ Matches(Pattern("\\bdetect\\b"), Lower(text))
        /\ Matches(Pattern("\\blab\\b"), Lower(text))
        /\ result = <<TRUE, "">>

C7_Witness == spc = "done" /\ text = P4Text /\ result[1]

\* C10: check_input leaves the SafetyFilter's tables as they were built, and
\* in any sequence of calls every call with a given text returns the same
\* SafetyCheck, whatever calls came before it.
C10_Pure ==
  /\ harmful_patterns = CompileHarmful
  /\ defensive_patterns = CompileDefensive
  /\ \A i \in DOMAIN log : \A j \in DOMAIN log :
        log[i][1] = log[j][1] => log[i][2] = log[j][2]

C10_Witness ==
  /\ Len(log) = 3
  /\ log[1][1] = log[3][1]
  /\ log[1][1] # log[2][1]
  /\ ~log[1][2].is_safe
  /\ ~log[2][2].is_safe

(***************************************************************************)
(* Claims about the suggestion table and the refusal message.              *)
(***************************************************************************)
\* C14: every topic of the rule table has its own entry in the suggestion
\* table: _get_safe_alternative(topic) is never the generic fallback for a
\* declared rule.
C14_EveryTopicHasEntry ==
  \A k \in DOMAIN harmful_patterns :
    get_safe_alternative(harmful_patterns[k][2]) # FallbackSuggestion

\* the topic of the SafetyCheck, taken from its reason
ReasonPrefix == "Request appears to involve "

BlockedTopic == SubSeq(check.reason, Len(ReasonPrefix) + 1, Len(check.reason))

\* the suggestion the table gives a topic: the value of the first key
\* contained in the topic, the generic fallback when there is none
ExpectedSuggestion(topic) ==
  LET hits == {i \in DOMAIN Alternatives : Contains(topic, Alternatives[i][1])} IN
    IF hits = {} THEN FallbackSuggestion
    ELSE Alternatives[CHOOSE i \in hits : \A j \in hits : i <= j][2]

\* C15: every BLOCK carries a non-empty message: the suggestion is the
\* first table value whose key is contained in the blocked topic, or the
\* generic fallback, and the refusal message embeds the reason (lower-cased,
\* as get_safety_response renders it) and that suggestion.
C15_BlockHasMessage ==
  Blocked =>
    /\ SubSeq(check.reason, 1, Len(ReasonPrefix)) = ReasonPrefix
    /\ check.suggestion = ExpectedSuggestion(BlockedTopic)
    /\ check.suggestion # ""
    /\ result[2] # ""
    /\ Contains(result[2], Lower(check.reason))
    /\ Contains(result[2], check.suggestion)

C15_Witness ==
  /\ Blocked
  /\ check.suggestion = FallbackSuggestion
  /\ Contains(result[2], FallbackSuggestion)

\* str.upper, on the letters of the model
UpperChar(c) == IF \E u \in DOMAIN UpperToLower : UpperToLower[u] = c
                THEN CHOOSE u \in DOMAIN UpperToLower : UpperToLower[u] = c
                ELSE c

RECURSIVE Upper(_)
Upper(s) == IF s = "" THEN "" ELSE UpperChar(CharAt(s, 1)) \o Upper(Tail(s))

\* C16: texts that differ in letter case only get the same outcome, the same
\* topic and the same message: the text in lower case and in upper case is
\* classified as the text itself.
C16_CaseInsensitive ==
  spc = "done" =>
    \A variant \in {Lower(text), Upper(text)} :
      /\ check_input(harmful_patterns, defensive_patterns, variant) = check
      /\ check_safety(harmful_patterns, defensive_patterns, variant) = result

C16_Witness ==
  /\ Blocked
  /\ text = "BYPASS AUTHENTICATION"
  /\ Lower(text) # text
  /\ Contains(check.reason, "security bypass")

\* C17: "write me a reverse shell" is blocked by the reverse/bind shell
\* rule, no earlier rule matching it, and the message holds the reverse
\* shell suggestion.
C17_ReverseShellBlocked ==
  (spc = "done" /\ text = P3Text) =>
    /\ ~check.is_safe
    /\ ~result[1]
    /\ FirstHit = 2
    /\ Contains(check.reason, "reverse/bind shell")
    /\ Contains(result[2],
         "I can explain what reverse shells are, how to detect them in network traffic, and how to harden systems against them.")

C17_Witness == Blocked /\ text = P3Text /\ rule_hits = {2}

\* C18: the empty text, and any text no rule pattern matches, is allowed,
\* with an empty message.
C18_NoMatchAllowed ==
  (spc = "done" /\ (text = "" \/ rule_hits = {})) =>
    /\ check.is_safe
    /\ result = <<TRUE, "">>

C18_Witness == spc = "done" /\ text = "" /\ rule_hits = {} /\ result = <<TRUE, "">>

\* the text holds w as a whole word: \bw\b
HasWord(txt, w) == Search(Cat(<<WB, Lit(w), WB>>), txt, TRUE)

\* the detection evasion rule matches through its alternative "detection",
\* the unauthorized access rule through its alternative "permission"
ThroughDetection(txt) ==
  Search(Cat(<<WB, Words(<<"evade", "avoid">>), Rep(Dot, 0, 15), Lit("detection"), WB>>),
         txt, TRUE)

ThroughPermission(txt) ==
  Search(Cat(<<WB, Words(<<"without", "no">>), Rep(Dot, 0, 15), Lit("permission"), WB>>),
         txt, TRUE)

\* C27 as stated: the detection evasion rule never blocks a match made
\* through "detection", nor the unauthorized access rule one made through
\* "permission".
C27_NeverBlocksThroughWord ==
  Blocked =>
    /\ ~(FirstHit = 9 /\ ThroughDetection(text))
    /\ ~(FirstHit = 14 /\ ThroughPermission(text))

\* C27 amended: a text that holds the whole word "detection" or "permission"
\* is allowed; the two rules block a match made through these words only
\* when the word is the tail of a longer word, which is no Context-Signal.
C27_WholeWordAllows ==
  spc = "done" =>
    /\ (HasWord(text, "detection") \/ HasWord(text, "permission")) => check.is_safe
    /\ (Blocked /\ FirstHit = 9 /\ ThroughDetection(text)) => ~HasWord(text, "detection")
    /\ (Blocked /\ FirstHit = 14 /\ ThroughPermission(text)) => ~HasWord(text, "permission")

C27_Witness ==
  /\ spc = "done"
  /\ text = "evade detection"
  /\ 9 \in rule_hits
  /\ HasWord(text, "detection")
  /\ check.is_safe

(***************************************************************************)
(* check_safety called directly, with a string or with None.               *)
(***************************************************************************)
\* mutant: a BLOCK is raised as a fault
check_safety_call_raise(hps, dps, a) ==
  IF a.type # "str"
  THEN [raised |-> TRUE, exc |-> "AttributeError", value |-> <<>>]
  ELSE LET r == check_safety(hps, dps, a.value) IN
         IF r[1] THEN [raised |-> FALSE, exc |-> "", value |-> r]
         ELSE [raised |-> TRUE, exc |-> "ValueError", value |-> <<>>]

\* a call check_safety(a): text.lower() raises AttributeError when a is not
\* a str, and nothing else in check_input or get_safety_response raises
check_safety_call(hps, dps, a) ==
  IF a.type # "str"
  THEN [raised |-> TRUE, exc |-> "AttributeError", value |-> <<>>]
  ELSE [raised |-> FALSE, exc |-> "", value |-> check_safety(hps, dps, a.value)]

InitCall ==
  /\ SafetyIdle
  /\ EngineIdle
  /\ StartIdle
  /\ ConvIdle
  /\ FrontIdle
  /\ SessionIdle
  /\ LoopIdle
  /\ call_arg \in {PyStr(t) : t \in Texts} \cup {PyNone}
  /\ call_outcome = NoOutcome

\* check_safety(call_arg)
CallCheckSafety ==
  /\ spc = "ready"
  /\ call_outcome' = check_safety_call(harmful_patterns, defensive_patterns, call_arg)
  /\ spc' = "done"
  /\ UNCHANGED <<harmful_patterns, defensive_patterns, text, rule_hits, ctx_hit,
                 check, result, log, convVars, frontVars, call_arg, sessionVars, loopVars,
                 engineVars, startVars>>

NextCall == CallCheckSafety

SpecCall == InitCall /\ [][NextCall]_vars

\* C19: for every string check_safety raises nothing and returns a pair of
\* a flag and a message, the message empty on ALLOW and the refusal on BLOCK;
\* a BLOCK is data, not a fault.
C19_BlockIsData ==
  (spc = "done" /\ call_arg.type = "str") =>
    /\ ~call_outcome.raised
    /\ Len(call_outcome.value) = 2
    /\ call_outcome.value[1] \in BOOLEAN
    /\ call_outcome.value[2] \in STRING
    /\ call_outcome.value[1] <=> (call_outcome.value[2] = "")

C19_Witness ==
  /\ spc = "done"
  /\ call_arg.type = "str"
  /\ ~call_outcome.raised
  /\ ~call_outcome.value[1]
  /\ call_outcome.value[2] # ""

(***************************************************************************)
(* A Conversation on its own: add_message and clear in any order.          *)
(***************************************************************************)
Contents == {"a", "b"}

InitConv ==
  /\ SafetyIdle
  /\ FrontIdle
  /\ ExtIdle
  /\ messages = <<>>
  /\ max_history \in 1..MaxHistory
  /\ prev_messages = <<>>
  /\ last_op = <<"init">>
  /\ nappends = 0

\* conversation.add_message(role, content)
AddMessage(role, content) ==
  /\ nappends < MaxAppends
  /\ messages' = add_message(messages, max_history, role, content)
  /\ prev_messages' = messages
  /\ last_op' = <<"add_message", role, content>>
  /\ nappends' = nappends + 1
  /\ UNCHANGED <<safetyVars, frontVars, max_history, extVars>>

\* conversation.clear(keep_system)
Clear(keep_system) ==
  /\ messages # <<>>
  /\ messages' = clear(messages, keep_system)
  /\ prev_messages' = messages
  /\ last_op' = <<"clear", keep_system>>
  /\ UNCHANGED <<safetyVars, frontVars, max_history, nappends, extVars>>

NextConv ==
  \/ \E role \in Roles : \E content \in Contents : AddMessage(role, content)
  \/ \E keep_system \in BOOLEAN : Clear(keep_system)

SpecConv == InitConv /\ [][NextConv]_vars

(***************************************************************************)
(* Claims about the conversation buffer.                                   *)
(***************************************************************************)
\* the last k elements of seq (none when k <= 0)
LastK(seq, k) ==
  IF k <= 0 THEN <<>>
  ELSE IF k >= Len(seq) THEN seq
  ELSE SubSeq(seq, Len(seq) - k + 1, Len(seq))

Max(a, b) == IF a > b THEN a ELSE b

\* the buffer the last add_message appended to, with the new message
Offered == Append(prev_messages, Message(last_op[2], last_op[3]))

\* C8: an add_message that takes the buffer beyond max_history leaves every
\* system message followed by exactly the most recent
\* max_history - (#system messages) non-system messages, in their order.
C8_TrimKeepsRecent ==
  (last_op[1] = "add_message" /\ Len(Offered) > max_history) =>
    messages = SystemMsgs(Offered)
                 \o LastK(OtherMsgs(Offered), max_history - Len(SystemMsgs(Offered)))

\* C9: after every add_message the buffer is no longer than
\* max(max_history, #system messages).
C9_Bounded ==
  last_op[1] = "add_message" =>
    Len(messages) <= Max(max_history, Len(SystemMsgs(messages)))

\* a is the tail of b
IsSuffix(a, b) ==
  /\ Len(a) <= Len(b)
  /\ a = SubSeq(b, Len(b) - Len(a) + 1, Len(b))

\* seq lists its system messages first and the others after them
SystemFirst(seq) ==
  \A i \in DOMAIN seq : \A j \in DOMAIN seq :
    (i < j /\ seq[j].role = "system") => seq[i].role = "system"

\* C28: an add_message that trims leaves all system messages first and the
\* non-system messages after them, each group in its original order (the
\* system messages all kept, the others a tail of what there was); an
\* add_message that does not exceed the limit leaves pure append order.
C28_TrimSystemFirst ==
  last_op[1] = "add_message" =>
    IF Len(Offered) > max_history
    THEN /\ SystemFirst(messages)
         /\ SystemMsgs(messages) = SystemMsgs(Offered)
         /\ IsSuffix(OtherMsgs(messages), OtherMsgs(Offered))
    ELSE messages = Offered

C28_Witness ==
  /\ last_op[1] = "add_message"
  /\ Len(Offered) > max_history
  /\ ~SystemFirst(Offered)
  /\ SystemFirst(messages)
  /\ OtherMsgs(messages) # <<>>

\* the system messages of seq, in order
RECURSIVE KeepSystem(_)
KeepSystem(seq) ==
  IF seq = <<>> THEN <<>>
  ELSE IF Head(seq).role = "system" THEN <<Head(seq)>> \o KeepSystem(Tail(seq))
  ELSE KeepSystem(Tail(seq))

\* C29: clear(keep_system=True) leaves exactly the system messages, in
\* their order, and no user or assistant message; clear(keep_system=False)
\* leaves the buffer empty.
C29_ClearKeepsSystem ==
  last_op[1] = "clear" =>
    IF last_op[2]
    THEN /\ messages = KeepSystem(prev_messages)
         /\ \A i \in DOMAIN messages : messages[i].role = "system"
    ELSE messages = <<>>

C29_Witness ==
  /\ last_op = <<"clear", TRUE>>
  /\ Len(messages) >= 2
  /\ messages[1] # messages[2]
  /\ Len(prev_messages) > Len(messages)

(***************************************************************************)
(* The front ends: one of them runs and handles turns.                     *)
(***************************************************************************)
ChatTexts == {"Reverse shell", "Hello"}

\* the lines typed at the CLI prompt
CliInputs == ChatTexts \cup {" ", "help", "flashcard", "clear", "voice", "Exit ", " QUIT", "bye"}

\* the messages submitted to a web or Gradio handler
WebInputs == ChatTexts \cup {" "}

Outcomes == {"ok", "raise"}

\* the microphone is read on the voice command only: <<voice_ok, heard>>
VoiceCases(user_input) ==
  IF Strip(Lower(user_input)) = "voice"
  THEN {<<FALSE, <<>>>>, <<TRUE, <<>>>>} \cup {<<TRUE, <<t>>>> : t \in ChatTexts}
  ELSE {<<FALSE, <<>>>>}

Apps == {"cli", "gradio", "standalone", "web"}

\* main.py Spider.__init__ builds its AIEngine; the other front ends build
\* theirs on the first allowed message
InitFront ==
  /\ SafetyIdle
  /\ ConvIdle
  /\ ExtIdle
  /\ app \in Apps
  /\ client_ok \in BOOLEAN
  /\ modules_available \in (IF app = "standalone" THEN BOOLEAN ELSE {TRUE})
  /\ ai = (IF app = "cli" THEN AIEngineNew(client_ok, SYSTEM_PROMPT) ELSE NoEngine)
  /\ running = (app = "cli")
  /\ turn = NoTurn
  /\ nturns = 0

\* main.py Spider.run: one line read and handled
CliTurn ==
  /\ app = "cli"
  /\ running
  /\ nturns < MaxTurns
  /\ \E user_input \in CliInputs : \E v \in VoiceCases(user_input) : \E outcome \in Outcomes :
       LET r == cli_turn(harmful_patterns, defensive_patterns, ai, user_input, v[1], v[2], outcome) IN
         /\ ai' = r.ai
         /\ running' = r.running
         /\ turn' = [frontend |-> "cli", input |-> user_input, events |-> r.events]
  /\ nturns' = nturns + 1
  /\ UNCHANGED <<safetyVars, convVars, app, client_ok, modules_available, extVars>>

\* main.py Spider.run: KeyboardInterrupt at the prompt
CliInterrupt ==
  /\ app = "cli"
  /\ running
  /\ nturns < MaxTurns
  /\ turn' = [frontend |-> "cli", input |-> "^C",
              events |-> <<EvShow("Use 'exit' to quit properly.")>>]
  /\ nturns' = nturns + 1
  /\ UNCHANGED <<safetyVars, convVars, app, ai, client_ok, modules_available, running, extVars>>

\* main.py Spider.run: an exception raised in the loop body before the
\* command is handled (Prompt.ask on a closed stdin raises EOFError)
CliError ==
  /\ app = "cli"
  /\ running
  /\ nturns < MaxTurns
  /\ turn' = [frontend |-> "cli", input |-> "^D", events |-> <<EvShow("Error: ")>>]
  /\ nturns' = nturns + 1
  /\ UNCHANGED <<safetyVars, convVars, app, ai, client_ok, modules_available, running, extVars>>

\* app.py chat_with_spider
GradioTurn ==
  /\ app = "gradio"
  /\ nturns < MaxTurns
  /\ \E message \in WebInputs : \E outcome \in Outcomes :
       LET r == gradio_turn(harmful_patterns, defensive_patterns, ai, client_ok, message, outcome) IN
         /\ ai' = r.ai
         /\ turn' = [frontend |-> "gradio", input |-> message, events |-> r.events]
  /\ nturns' = nturns + 1
  /\ UNCHANGED <<safetyVars, convVars, app, client_ok, modules_available, running, extVars>>

\* app_standalone.py chat_interface
StandaloneTurn ==
  /\ app = "standalone"
  /\ nturns < MaxTurns
  /\ \E message \in WebInputs : \E outcome \in Outcomes :
       LET r == standalone_turn(harmful_patterns, defensive_patterns, ai, client_ok,
                                modules_available, message, outcome) IN
         /\ ai' = r.ai
         /\ turn' = [frontend |-> "standalone", input |-> message, events |-> r.events]
  /\ nturns' = nturns + 1
  /\ UNCHANGED <<safetyVars, convVars, app, client_ok, modules_available, running, extVars>>

\* web_app.py chat: a POST to /api/chat from the page
WebTurn ==
  /\ app = "web"
  /\ nturns < MaxTurns
  /\ \E message \in WebInputs : \E outcome \in Outcomes :
       LET r == web_turn(harmful_patterns, defensive_patterns, ai, client_ok, message, outcome) IN
         /\ ai' = r.ai
         /\ turn' = [frontend |-> "web", input |-> message, events |-> r.events]
  /\ nturns' = nturns + 1
  /\ UNCHANGED <<safetyVars, convVars, app, client_ok, modules_available, running, extVars>>

\* shared_app.py chat_interface: a message sent through the sharing proxy
SharedTurn ==
  /\ app = "web"
  /\ nturns < MaxTurns
  /\ \E message \in WebInputs : \E reachable \in BOOLEAN : \E outcome \in Outcomes :
       LET r == shared_turn(harmful_patterns, defensive_patterns, ai, client_ok, message,
                            reachable, outcome) IN
         /\ ai' = r.ai
         /\ turn' = [frontend |-> "shared", input |-> message, events |-> r.events]
  /\ nturns' = nturns + 1
  /\ UNCHANGED <<safetyVars, convVars, app, client_ok, modules_available, running, extVars>>

NextFront ==
  \/ CliTurn
  \/ CliInterrupt
  \/ CliError
  \/ GradioTurn
  \/ StandaloneTurn
  \/ WebTurn
  \/ SharedTurn

SpecFront == InitFront /\ [][NextFront]_vars

(***************************************************************************)
(* Claims about the front ends.                                            *)
(***************************************************************************)
Events == turn.events

IsCheck(e) == e[1] = "check_safety"
IsChat(e) == e[1] = "ai.chat"
IsShow(e) == e[1] = "show"

\* the turn classified some text BLOCK
TurnBlocked == \E i \in DOMAIN Events : IsCheck(Events[i]) /\ ~Events[i][3]

\* the turn called AIEngine.chat
TurnChatted == \E j \in DOMAIN Events : IsChat(Events[j])

\* C2: in every front end, a turn whose message is classified BLOCK makes no
\* AIEngine.chat call and leaves the engine and its conversation as they were.
C2_BlockNeverReachesLLM ==
  [][TurnBlocked' => (~TurnChatted' /\ ai' = ai)]_vars

C2_Witness ==
  /\ TurnBlocked
  /\ ~TurnChatted
  /\ turn.frontend = "shared"
  /\ ai.built
  /\ Len(ai.messages) > 1

\* C3: in every front end, every AIEngine.chat call of a turn comes after
\* the turn's one and only check_safety call, which was on the same text
\* and returned ALLOW.
C3_ClassifiedOnceBeforeLLM ==
  \A j \in DOMAIN Events :
    IsChat(Events[j]) =>
      LET checks == {i \in DOMAIN Events : IsCheck(Events[i])} IN
        /\ Cardinality(checks) = 1
        /\ \A i \in checks :
             /\ i < j
             /\ Events[i][2] = Events[j][2]
             /\ Events[i][3]

C3_Witness ==
  /\ turn.frontend = "cli"
  /\ Strip(Lower(turn.input)) = "voice"
  /\ TurnChatted
  /\ ai.client
  /\ Len(ai.messages) > 1

\* C4: in every front end, a turn whose message is classified BLOCK shows
\* the user the refusal message that check_safety returned.
C4_RefusalShown ==
  \A i \in DOMAIN Events :
    (IsCheck(Events[i]) /\ ~Events[i][3]) =>
      \E j \in DOMAIN Events :
        /\ j > i
        /\ IsShow(Events[j])
        /\ Events[j][2] = Events[i][4]

\* the turn's LLM call failed: what AIEngine.chat returned, and the user
\* was shown, is one of its error strings
FailedTurn ==
  \E j \in DOMAIN Events : \E k \in DOMAIN Events :
    /\ IsChat(Events[j])
    /\ k > j
    /\ IsShow(Events[k])
    /\ Events[k][2] \in {ErrorGenerating, NotInitialized}

\* C12: a failure of the LLM call (the provider raises, or there is no
\* client for want of a key or a provider) is shown to the user as an error
\* string, and in the CLI the loop keeps running and takes the next line.
C12_FailureKeepsLoop ==
  /\ \A j \in DOMAIN Events :
       IsChat(Events[j]) =>
         \E k \in DOMAIN Events : k > j /\ IsShow(Events[k]) /\ Events[k][2] # ""
  /\ (FailedTurn /\ app = "cli") =>
       /\ running
       /\ nturns < MaxTurns => ENABLED CliTurn

C12_Witness ==
  /\ app = "cli"
  /\ FailedTurn
  /\ ai.client
  /\ running
  /\ nturns = 2
  /\ \E k \in DOMAIN Events : Events[k] = EvShow(ErrorGenerating)

\* C13: on ALLOW the text given to AIEngine.chat, and stored as the user
\* message, is the user's text character for character (the text typed or
\* submitted; on the voice command, the text heard), not its lower-case form.
C13_TextUnmodified ==
  \A j \in DOMAIN Events :
    IsChat(Events[j]) =>
      LET t == Events[j][2]
          users == SelectSeq(ai.messages, LAMBDA msg : msg.role = "user")
      IN  /\ IF turn.frontend = "cli" /\ Strip(Lower(turn.input)) = "voice"
             THEN Events[1] = EvShow("You said: " \o t)
             ELSE t = turn.input
          /\ ai.client => (users # <<>> /\ users[Len(users)].content = t)

C13_Witness ==
  /\ TurnChatted
  /\ turn.frontend = "gradio"
  /\ turn.input = "Hello"
  /\ Lower(turn.input) # turn.input
  /\ ai.client
  /\ \E i \in DOMAIN ai.messages : ai.messages[i] = Message("user", "Hello")

\* the text the turn classified BLOCK
BlockedTexts == {Events[i][2] : i \in {k \in DOMAIN Events : IsCheck(Events[k]) /\ ~Events[k][3]}}

\* C22: a turn whose input is classified BLOCK leaves the engine's
\* conversation buffer as it was before the turn: the refused text is not in
\* it as a user message and it has not grown by an assistant message.
C22_BlockKeepsHistory ==
  /\ [](TurnBlocked =>
          \A i \in DOMAIN ai.messages : ai.messages[i].content \notin BlockedTexts)
  /\ [][(TurnBlocked' /\ nturns' = nturns + 1) =>
          /\ ai'.messages = ai.messages
          /\ Len(ai'.messages) = Len(ai.messages)]_vars

C22_Witness ==
  /\ TurnBlocked
  /\ turn.frontend = "cli"
  /\ nturns = 3
  /\ Len(ai.messages) >= 4
  /\ ai.messages[Len(ai.messages)].role = "assistant"

\* the lines of CliInputs that are exit commands
ExitLines == {"Exit ", " QUIT", "bye"}

\* C30: the CLI loop ends exactly on an exit command: a line that is exit,
\* quit or bye in any letter case and with surrounding blanks clears
\* running, is neither classified nor sent to the LLM, and nothing is read
\* after it; any other line, a blank line, a KeyboardInterrupt or an
\* exception in the loop body leaves the loop running.
C30_ExitEndsLoop ==
  /\ [][(app = "cli" /\ nturns' = nturns + 1) =>
          /\ running
          /\ running' = (turn'.input \notin ExitLines)
          /\ turn'.input \in ExitLines =>
               \A i \in DOMAIN turn'.events :
                 ~IsCheck(turn'.events[i]) /\ ~IsChat(turn'.events[i])]_vars
  /\ [][(app = "cli" /\ ~running) => UNCHANGED <<turn, nturns, ai, running>>]_vars

C30_Witness ==
  /\ app = "cli"
  /\ ~running
  /\ turn.input = " QUIT"
  /\ nturns = 3
  /\ Len(ai.messages) > 1

(***************************************************************************)
(* A web or Gradio server with several browser sessions: every session's   *)
(* handler calls get_ai_engine(), the one engine of the module.            *)
(***************************************************************************)
Sessions == 1..MaxSessions

InitSessions ==
  /\ SafetyIdle
  /\ EngineIdle
  /\ StartIdle
  /\ ConvIdle
  /\ CallIdle
  /\ LoopIdle
  /\ app \in {"gradio", "web"}
  /\ client_ok \in BOOLEAN
  /\ modules_available = TRUE
  /\ ai = NoEngine
  /\ running = FALSE
  /\ turn = NoTurn
  /\ nturns = 0
  /\ session = 0
  /\ sent = [s \in Sessions |-> {}]

\* web_app.py chat: a POST to /api/chat from the page of session s
WebSessionTurn(s) ==
  /\ app = "web"
  /\ nturns < MaxSessionTurns
  /\ \E message \in WebInputs : \E outcome \in Outcomes :
       LET r == web_turn(harmful_patterns, defensive_patterns, ai, client_ok, message, outcome) IN
         /\ ai' = r.ai
         /\ turn' = [frontend |-> "web", input |-> message, events |-> r.events]
         /\ sent' = [sent EXCEPT ![s] = @ \cup {message}]
  /\ session' = s
  /\ nturns' = nturns + 1
  /\ UNCHANGED <<safetyVars, convVars, app, client_ok, modules_available, running, callVars, loopVars,
                 engineVars, startVars>>

\* app.py chat_with_spider: a message submitted in the page of session s
GradioSessionTurn(s) ==
  /\ app = "gradio"
  /\ nturns < MaxSessionTurns
  /\ \E message \in WebInputs : \E outcome \in Outcomes :
       LET r == gradio_turn(harmful_patterns, defensive_patterns, ai, client_ok, message, outcome) IN
         /\ ai' = r.ai
         /\ turn' = [frontend |-> "gradio", input |-> message, events |-> r.events]
         /\ sent' = [sent EXCEPT ![s] = @ \cup {message}]
  /\ session' = s
  /\ nturns' = nturns + 1
  /\ UNCHANGED <<safetyVars, convVars, app, client_ok, modules_available, running, callVars, loopVars,
                 engineVars, startVars>>

NextSessions ==
  \/ \E s \in Sessions : WebSessionTurn(s)
  \/ \E s \in Sessions : GradioSessionTurn(s)

SpecSessions == InitSessions /\ [][NextSessions]_vars

\* C11: the history sent to the LLM for a session's turn holds user messages
\* of that session only, never a text that only another session submitted.
C11_NoCrossSession ==
  (TurnChatted /\ ai.client /\ session \in DOMAIN sent) =>
    \A i \in DOMAIN ai.messages :
      ai.messages[i].role = "user" => ai.messages[i].content \in sent[session]

(***************************************************************************)
(* The chat loop step by step: inputs are submitted at any time (lines     *)
(* typed ahead at the CLI prompt, requests posted to /api/chat), and a     *)
(* turn is accepted, classified and, if allowed, given its LLM call.       *)
(***************************************************************************)
\* mutant: the next input is accepted while a turn is in progress
CanAcceptAlways(act) == TRUE

\* main.py Spider.run: Prompt.ask is reached again only after process_command
\* and chat have returned; web_app.py chat: the coroutine has no await, so
\* the event loop starts the next handler only after this one has returned
CanAccept(act) == act = {}

InitLoop ==
  /\ SafetyIdle
  /\ EngineIdle
  /\ StartIdle
  /\ ConvIdle
  /\ CallIdle
  /\ SessionIdle
  /\ LoopIdle
  /\ app \in {"cli", "web"}
  /\ client_ok \in BOOLEAN
  /\ modules_available = TRUE
  /\ ai = (IF app = "cli" THEN AIEngineNew(client_ok, SYSTEM_PROMPT) ELSE NoEngine)
  /\ running = (app = "cli")
  /\ turn = NoTurn
  /\ nturns = 0

\* a line is typed, or a request is posted: it waits to be accepted
Submit(t) ==
  /\ nturns + Len(waiting) < MaxSubmits
  /\ waiting' = Append(waiting, t)
  /\ UNCHANGED <<safetyVars, convVars, frontVars, callVars, sessionVars, active,
                 engineVars, startVars>>

\* Prompt.ask returns the next line; the event loop enters chat(data)
Accept ==
  /\ waiting # <<>>
  /\ CanAccept(active)
  /\ active' = active \cup {[id |-> nturns + 1, text |-> Head(waiting),
                             phase |-> "classify", events |-> <<>>]}
  /\ waiting' = Tail(waiting)
  /\ nturns' = nturns + 1
  /\ UNCHANGED <<safetyVars, convVars, app, ai, client_ok, modules_available, running,
                 turn, callVars, sessionVars,
                 engineVars, startVars>>

\* check_safety on the turn's text; on BLOCK the refusal is given and the
\* turn is over
Classify(a) ==
  /\ a \in active
  /\ a.phase = "classify"
  /\ LET safety == check_safety(harmful_patterns, defensive_patterns, a.text) IN
       IF ~safety[1]
       THEN /\ active' = active \ {a}
            /\ turn' = [frontend |-> app, input |-> a.text,
                        events |-> <<EvCheck(a.text, safety), EvShow(safety[2])>>]
       ELSE /\ active' = (active \ {a})
                           \cup {[a EXCEPT !.phase = "llm",
                                           !.events = <<EvCheck(a.text, safety)>>]}
            /\ turn' = turn
  /\ UNCHANGED <<safetyVars, convVars, app, ai, client_ok, modules_available, running,
                 nturns, callVars, sessionVars, waiting,
                 engineVars, startVars>>

\* the AIEngine.chat call of an allowed turn, to its return
LLMCall(a) ==
  /\ a \in active
  /\ a.phase = "llm"
  /\ \E outcome \in Outcomes :
       LET c == ai_chat(IF app = "cli" THEN ai ELSE get_ai_engine(ai, client_ok),
                        a.text, outcome) IN
         /\ ai' = c.ai
         /\ turn' = [frontend |-> app, input |-> a.text,
                     events |-> a.events \o <<EvChat(a.text), EvShow(c.ret)>>]
  /\ active' = active \ {a}
  /\ UNCHANGED <<safetyVars, convVars, app, client_ok, modules_available, running,
                 nturns, callVars, sessionVars, waiting,
                 engineVars, startVars>>

NextLoop ==
  \/ \E t \in ChatTexts : Submit(t)
  \/ Accept
  \/ \E a \in active : Classify(a)
  \/ \E a \in active : LLMCall(a)

SpecLoop == InitLoop /\ [][NextLoop]_vars

\* C20: turns are handled one at a time: never two turns in classification
\* or in an LLM call at once, an input is accepted only when no turn is in
\* progress, and a finished turn that was allowed made exactly one LLM call.
C20_OneTurnAtATime ==
  /\ [](Cardinality(active) <= 1)
  /\ [][nturns' # nturns => active = {}]_vars
  /\ [](\A i \in DOMAIN Events :
          (IsCheck(Events[i]) /\ Events[i][3]) =>
            Cardinality({j \in DOMAIN Events : IsChat(Events[j])}) = 1)

C20_Witness ==
  /\ nturns = 2
  /\ waiting # <<>>
  /\ \E a \in active : a.phase = "llm" /\ a.id = 2
  /\ TurnChatted

(***************************************************************************)
(* An AIEngine on its own: constructed from a configuration, then chat and *)
(* reset_conversation calls in any order.                                  *)
(***************************************************************************)
Providers == {"OpenAI", "anthropic", "ollama", "gemini"}

ApiKeys == {<<>>, <<"">>, <<"sk-key">>}

\* the constructions tried: every provider with the libraries installed or
\* not, with and without a key, with a constructor that works or raises;
\* and one engine without a system prompt
EngineConfigs ==
  {[provider |-> p, libs |-> l, api_key |-> k, ctor_fails |-> f, system_prompt |-> SYSTEM_PROMPT] :
     p \in Providers, l \in {AllLibs, {}}, k \in ApiKeys, f \in BOOLEAN}
  \cup {[provider |-> "ollama", libs |-> AllLibs, api_key |-> <<>>, ctor_fails |-> FALSE,
         system_prompt |-> ""]}

\* the user messages given to AIEngine.chat
EngineTexts == {"Hello"}

\* AIEngine(provider, api_key, ..., system_prompt)
InitEngine ==
  /\ SafetyIdle
  /\ ConvIdle
  /\ FrontIdle
  /\ CallIdle
  /\ SessionIdle
  /\ LoopIdle
  /\ StartIdle
  /\ engine_cfg \in EngineConfigs
  /\ engine = AIEngineNew(init_client(engine_cfg.provider, engine_cfg.libs,
                                      engine_cfg.api_key, engine_cfg.ctor_fails),
                          engine_cfg.system_prompt)
  /\ engine_call = NoCall
  /\ nchats = 0

\* AIEngine.chat(user_message)
EngineChat(user_message, outcome) ==
  /\ nchats < MaxChats
  /\ LET c == ai_chat(engine, user_message, outcome) IN
       /\ engine' = c.ai
       /\ engine_call' =
            [op |-> "chat", user_message |-> user_message, outcome |-> outcome,
             ret |-> c.ret,
             requests |-> IF ~c.called THEN <<>>
                          ELSE <<provider_request(engine_cfg.provider, engine_cfg.system_prompt,
                                                  engine.messages, user_message)>>,
             before |-> engine.messages]
  /\ nchats' = nchats + 1
  /\ UNCHANGED <<safetyVars, convVars, frontVars, callVars, sessionVars, loopVars,
                 engine_cfg, startVars>>

\* AIEngine.reset_conversation()
EngineReset ==
  /\ engine_call.op # "reset"
  /\ engine' = reset_conversation(engine)
  /\ engine_call' = [NoCall EXCEPT !.op = "reset", !.before = engine.messages]
  /\ UNCHANGED <<safetyVars, convVars, frontVars, callVars, sessionVars, loopVars,
                 engine_cfg, nchats, startVars>>

NextEngine ==
  \/ \E user_message \in EngineTexts : \E outcome \in Outcomes : EngineChat(user_message, outcome)
  \/ EngineReset

SpecEngine == InitEngine /\ [][NextEngine]_vars

(***************************************************************************)
(* Claims about the engine.                                                *)
(***************************************************************************)
Buffer == engine.messages

Before == engine_call.before

UserMsg == Message("user", engine_call.user_message)

\* C23: an engine built with a non-empty system prompt holds, after any
\* chat and reset_conversation calls, exactly one system message; it is the
\* first element and is the system prompt; the buffer is never longer than 20.
C23_OneSystemPrompt ==
  engine_cfg.system_prompt # "" =>
    /\ Len(Buffer) >= 1
    /\ Len(Buffer) <= 20
    /\ Buffer[1] = Message("system", engine_cfg.system_prompt)
    /\ \A i \in 2..Len(Buffer) : Buffer[i].role # "system"

C23_Witness ==
  /\ engine_cfg.system_prompt # ""
  /\ engine_call.op = "chat"
  /\ Len(Before) >= 19
  /\ Len(Buffer) = 20
  /\ Buffer # Before \o SubSeq(Buffer, Len(Buffer) - 1, Len(Buffer))

\* the chat call failed in the provider call
ChatRaised == engine_call.op = "chat" /\ engine.client /\ engine_call.outcome = "raise"

\* C24: after a chat call whose provider call raised, the buffer is the old
\* one with the user message appended (the oldest non-system message dropped
\* when it was full) and no assistant message; the next chat call leaves two
\* user messages next to each other.
C24_FailureKeepsUserMessage ==
  /\ [](ChatRaised =>
          /\ Buffer # <<>>
          /\ Buffer[Len(Buffer)] = UserMsg
          /\ IF Len(Before) < 20
             THEN Buffer = Append(Before, UserMsg)
             ELSE LET k == Len(SystemMsgs(Before)) IN
                    Buffer = SubSeq(Before, 1, k) \o SubSeq(Before, k + 2, Len(Before))
                               \o <<UserMsg>>)
  /\ [][(ChatRaised /\ engine_call'.op = "chat") =>
          LET n == Len(engine'.messages)
              k == IF engine_call'.outcome = "ok" THEN n - 1 ELSE n
          IN  /\ k >= 2
              /\ engine'.messages[k - 1] = UserMsg
              /\ engine'.messages[k].role = "user"]_vars

C24_Witness ==
  /\ ChatRaised
  /\ engine_cfg.system_prompt # ""
  /\ Len(Buffer) >= 3
  /\ Buffer[Len(Buffer) - 1].role = "user"
  /\ Buffer[Len(Buffer)].role = "user"

\* the cases in which _init_client leaves self.client unset
NoClientCase(cfg) ==
  LET p == Lower(cfg.provider) IN
    \/ p \notin {"openai", "anthropic", "ollama"}
    \/ p \notin cfg.libs
    \/ p \in {"openai", "anthropic"} /\ cfg.api_key \in {<<>>, <<"">>}
    \/ p \in {"openai", "anthropic"} /\ cfg.ctor_fails

\* C25: with a missing key for openai or anthropic, an unknown or
\* unavailable provider, or a failing constructor, the engine has no client,
\* and every chat call on an engine without a client returns the fixed "not
\* initialized" string, calls no provider and leaves the buffer as it was.
C25_NoClientNoCall ==
  /\ NoClientCase(engine_cfg) => ~engine.client
  /\ (~engine.client /\ engine_call.op = "chat") =>
       /\ engine_call.ret = NotInitialized
       /\ engine_call.requests = <<>>
       /\ Buffer = Before

C25_Witness ==
  /\ NoClientCase(engine_cfg)
  /\ Lower(engine_cfg.provider) = "openai"
  /\ engine_cfg.libs = AllLibs
  /\ engine_cfg.ctor_fails
  /\ engine_cfg.api_key = <<"sk-key">>
  /\ engine_call.op = "chat"
  /\ nchats = 2

\* the chat call got an answer
ChatAnswered == engine_call.op = "chat" /\ engine.client /\ engine_call.outcome = "ok"

\* the dict the provider APIs take for a message
ApiDict(msg) == [role |-> msg.role, content |-> msg.content]

\* C26: a chat call that gets an answer makes one provider call, with a
\* history whose last entry is the new user message, and leaves the buffer
\* ending with the user message and then the assistant's answer; when
\* nothing is trimmed the buffer is the old one with these two appended.
C26_UserThenAssistant ==
  ChatAnswered =>
    LET n == Len(Buffer) IN
      /\ Len(engine_call.requests) = 1
      /\ LET sent_msgs == engine_call.requests[1].messages IN
           /\ sent_msgs # <<>>
           /\ sent_msgs[Len(sent_msgs)] = ApiDict(UserMsg)
           /\ \A i \in DOMAIN sent_msgs : sent_msgs[i].role # "assistant" \/ i < Len(sent_msgs)
      /\ n >= 2
      /\ Buffer[n - 1] = UserMsg
      /\ Buffer[n] = Message("assistant", engine_call.ret)
      /\ Len(Before) + 2 <= 20 => Buffer = Before \o <<UserMsg, Message("assistant", engine_call.ret)>>

C26_Witness ==
  /\ ChatAnswered
  /\ Lower(engine_cfg.provider) = "anthropic"
  /\ Len(Before) >= 3
  /\ Len(Buffer) = Len(Before) + 2
  /\ Len(engine_call.requests[1].messages) = Len(Before)

(***************************************************************************)
(* Process start: modules/safety.py is imported (SafetyFilter.__init__     *)
(* compiles the two tables, then the instance is bound to safety_filter    *)
(* and check_safety is defined), and only then are texts classified.       *)
(***************************************************************************)
\* mutant: a text can be classified while the module is still being imported
CanClassifyAnytime(pc) == TRUE

\* check_input can be called once safety_filter and check_safety exist
CanClassify(pc) == pc = "imported"

InitStart ==
  /\ harmful_patterns = <<>>
  /\ defensive_patterns = <<>>
  /\ check = NoCheck
  /\ result = <<TRUE, "">>
  /\ spc = "ready"
  /\ log = <<>>
  /\ text = ""
  /\ rule_hits = {}
  /\ ctx_hit = FALSE
  /\ ConvIdle
  /\ FrontIdle
  /\ CallIdle
  /\ SessionIdle
  /\ LoopIdle
  /\ EngineIdle
  /\ import_pc = "start"

\* SafetyFilter.__init__: self.harmful_patterns = [...]
ImportCompileHarmful ==
  /\ import_pc = "start"
  /\ harmful_patterns' = CompileHarmful
  /\ import_pc' = "harmful"
  /\ UNCHANGED <<defensive_patterns, text, rule_hits, ctx_hit, check, result, spc, log,
                 convVars, frontVars, callVars, sessionVars, loopVars, engineVars>>

\* SafetyFilter.__init__: self.defensive_patterns = [...]
ImportCompileDefensive ==
  /\ import_pc = "harmful"
  /\ defensive_patterns' = CompileDefensive
  /\ import_pc' = "defensive"
  /\ UNCHANGED <<harmful_patterns, text, rule_hits, ctx_hit, check, result, spc, log,
                 convVars, frontVars, callVars, sessionVars, loopVars, engineVars>>

\* safety_filter = SafetyFilter() is bound and check_safety defined
ImportBind ==
  /\ import_pc = "defensive"
  /\ import_pc' = "imported"
  /\ UNCHANGED <<safetyVars, convVars, frontVars, callVars, sessionVars, loopVars, engineVars>>

\* a request is classified
StartCheckInput(t) ==
  /\ CanClassify(import_pc)
  /\ CheckInput(t)

NextStart ==
  \/ ImportCompileHarmful
  \/ ImportCompileDefensive
  \/ ImportBind
  \/ \E t \in ProbeTexts : StartCheckInput(t)

SpecStart == InitStart /\ [][NextStart]_vars

\* C21: every Rule and Context-Signal pattern is compiled when the import
\* ends, before any text is classified: each check_input call runs with
\* both tables complete.
C21_CompiledBeforeClassify ==
  /\ [](import_pc = "imported" =>
          /\ harmful_patterns = CompileHarmful
          /\ defensive_patterns = CompileDefensive
          /\ Len(harmful_patterns) = Len(HARMFUL_PATTERNS)
          /\ Len(defensive_patterns) = Len(DEFENSIVE_CONTEXT))
  /\ [][log' # log =>
          /\ import_pc = "imported"
          /\ Len(harmful_patterns) = Len(HARMFUL_PATTERNS)
          /\ Len(defensive_patterns) = Len(DEFENSIVE_CONTEXT)]_vars

C21_Witness ==
  /\ import_pc = "imported"
  /\ Len(log) = 2
  /\ ~log[1][2].is_safe
  /\ log[2][2].is_safe
  /\ harmful_patterns = CompileHarmful

=========================================================================
